---- MODULE Spec2Model ----
(***************************************************************************)
(* Bit-level model of the bytebits package (big-endian bit order).         *)
(*                                                                         *)
(* A byte is an integer in 0..255.  A uint64 is a sequence of 64 bits,     *)
(* most-significant bit first, so that shifts lose the bits a 64-bit       *)
(* register loses.  A Go slice seen by the word primitives is a pair       *)
(* (a, p): the bytes of the underlying slice up to its length, and the     *)
(* number of bytes the slice expression b[k:] has advanced into it; b[i]   *)
(* is a[p+i+1] and an index at or beyond Len(a) is a bounds fault.  A      *)
(* destination that may grow is a record [b, spare]: the bytes within the  *)
(* length, and the bytes of the backing array between length and capacity. *)
(***************************************************************************)
EXTENDS Integers, Sequences, FiniteSets, TLC

VARIABLES op, arg, ret, prev

vars == <<op, arg, ret, prev>>

(***************************************************************************)
(* Machine arithmetic on bytes.                                            *)
(***************************************************************************)
RECURSIVE Pow2(_)
Pow2(k) == IF k <= 0 THEN 1 ELSE 2 * Pow2(k - 1)

\* Go's v << k on a byte: the bits shifted out of the byte are lost.
shl8(x, k) == IF k >= 8 THEN 0 ELSE (x * Pow2(k)) % 256

\* Go's v >> k on a byte.
shr8(x, k) == IF k >= 8 THEN 0 ELSE x \div Pow2(k)

\* Bit i of byte x counted from the most-significant bit (big-endian).
ByteBit(x, i) == (x \div Pow2(7 - i)) % 2

bitAnd(p, q) == p * q
bitOr(p, q) == IF p + q > 0 THEN 1 ELSE 0
bitXor(p, q) == (p + q) % 2
bitAndNot(p, q) == p * (1 - q)

\* A bitwise operator on bytes from its truth table f.
Bitwise8(f, x, y) ==
    f[ByteBit(x, 0), ByteBit(y, 0)] * 128 + f[ByteBit(x, 1), ByteBit(y, 1)] * 64
  + f[ByteBit(x, 2), ByteBit(y, 2)] * 32  + f[ByteBit(x, 3), ByteBit(y, 3)] * 16
  + f[ByteBit(x, 4), ByteBit(y, 4)] * 8   + f[ByteBit(x, 5), ByteBit(y, 5)] * 4
  + f[ByteBit(x, 6), ByteBit(y, 6)] * 2   + f[ByteBit(x, 7), ByteBit(y, 7)]

and8(x, y) == Bitwise8([p \in 0..1, q \in 0..1 |-> bitAnd(p, q)], x, y)
or8(x, y) == Bitwise8([p \in 0..1, q \in 0..1 |-> bitOr(p, q)], x, y)
xor8(x, y) == Bitwise8([p \in 0..1, q \in 0..1 |-> bitXor(p, q)], x, y)
andnot8(x, y) == Bitwise8([p \in 0..1, q \in 0..1 |-> bitAndNot(p, q)], x, y)
not8(x) == 255 - x

(***************************************************************************)
(* Machine arithmetic on uint64.                                           *)
(***************************************************************************)
U64Zero == [i \in 1..64 |-> 0]
U64Ones == [i \in 1..64 |-> 1]

\* uint64(x) for a byte x.
U64(x) == [i \in 1..64 |-> IF i <= 56 THEN 0 ELSE ByteBit(x, i - 57)]

\* byte(v): the low 8 bits.
byteOf(v) == v[57] * 128 + v[58] * 64 + v[59] * 32 + v[60] * 16
           + v[61] * 8 + v[62] * 4 + v[63] * 2 + v[64]

shl64(v, k) == [i \in 1..64 |-> IF i + k <= 64 THEN v[i + k] ELSE 0]
shr64(v, k) == [i \in 1..64 |-> IF i - k >= 1 THEN v[i - k] ELSE 0]
or64(v, w) == [i \in 1..64 |-> bitOr(v[i], w[i])]
and64(v, w) == [i \in 1..64 |-> bitAnd(v[i], w[i])]
xor64(v, w) == [i \in 1..64 |-> bitXor(v[i], w[i])]
andnot64(v, w) == [i \in 1..64 |-> bitAndNot(v[i], w[i])]
not64(v) == [i \in 1..64 |-> 1 - v[i]]

\* binary.BigEndian.Uint64 of an 8-byte sequence.
U64FromBytes(bs) == [i \in 1..64 |-> ByteBit(bs[((i - 1) \div 8) + 1], (i - 1) % 8)]

(***************************************************************************)
(* Bit view of a byte sequence: bit k (from 0) in big-endian bit order.    *)
(***************************************************************************)
BitAt(a, k) == ByteBit(a[(k \div 8) + 1], k % 8)

Zeros(l) == [i \in 1..l |-> 0]

Max(m, n) == IF m >= n THEN m ELSE n
Min(m, n) == IF m <= n THEN m ELSE n

(***************************************************************************)
(* bits.go: the growth collaborator.                                       *)
(***************************************************************************)
\* Grow(z, l) on a slice z = [b, spare].
Grow(z, l) ==
    IF l <= Len(z.b) THEN z
    ELSE IF l <= Len(z.b) + Len(z.spare)
    THEN [b |-> z.b \o SubSeq(z.spare, 1, l - Len(z.b)),
          spare |-> SubSeq(z.spare, l - Len(z.b) + 1, Len(z.spare))]
    ELSE LET cap == Len(z.b) + Len(z.spare)
             nc == Max(cap * 2, l)
         IN [b |-> z.b \o Zeros(l - Len(z.b)), spare |-> Zeros(nc - l)]

\* The value of an expression, computed once: Only({e}) is e.  A call's
\* arguments and each assignment's right-hand side are computed once.
Only(S) == CHOOSE e \in S : TRUE

\* The nil slice, and a slice holding exactly the bytes bs.
NilSlice == [b |-> <<>>, spare |-> <<>>]
Slice(bs) == [b |-> bs, spare |-> <<>>]

(***************************************************************************)
(* Word get/put primitives.                                                *)
(***************************************************************************)
\* beNorm(b, o): byte offset and sub-byte offset; b[o>>3:] faults beyond len.
beNorm(a, p, o) ==
    [p |-> p + (o \div 8), o |-> o % 8, fault |-> p + (o \div 8) > Len(a)]

beGrow(z, o, w) ==
    LET g == Grow(z, (o + w) \div 8)
        nm == beNorm(g.b, 0, o)
    IN [z |-> g, p |-> nm.p, o |-> nm.o, fault |-> nm.fault]

GetFault(p, o) == [p |-> p, o |-> o, v |-> U64Zero, fault |-> TRUE]

beGet64(a, p, o) ==
    IF p + 8 > Len(a) THEN GetFault(p, o)
    ELSE LET v == U64FromBytes(SubSeq(a, p + 1, p + 8))
         IN IF o = 0 THEN [p |-> p + 8, o |-> o, v |-> v, fault |-> FALSE]
            ELSE IF p + 8 >= Len(a) THEN GetFault(p, o)
            ELSE [p |-> p + 8, o |-> o,
                  v |-> or64(shl64(v, o), shr64(U64(a[p + 9]), 8 - o)),
                  fault |-> FALSE]

\* The four assignments to v in beGet's loop.
GetFullByte(v, b0) == or64(shl64(v, 8), U64(b0))
GetLastPartial(v, b0, n) == or64(shl64(v, n), shr64(U64(b0), 8 - n))
GetRestOfByte(v, b0, r) == or64(shl64(v, r), andnot64(U64(b0), shl64(U64(255), r)))
GetPartOfByteNoMask(v, b0, r, n) == or64(shl64(v, n), shr64(U64(b0), r - n))
GetPartOfByte(v, b0, r, n) ==
    or64(shl64(v, n), andnot64(shr64(U64(b0), r - n), shl64(U64(255), n)))

RECURSIVE beGetLoop(_, _, _, _, _)
beGetLoop(a, p, o, n, v) ==
    IF n <= 0 THEN [p |-> p, o |-> o, v |-> v, fault |-> FALSE]
    ELSE IF p >= Len(a) THEN [p |-> p, o |-> o, v |-> v, fault |-> TRUE]
    ELSE LET b0 == a[p + 1] IN
      IF o = 0
      THEN IF n >= 8
           THEN beGetLoop(a, p + 1, o, n - 8, GetFullByte(v, b0))
           ELSE [p |-> p, o |-> n, v |-> GetLastPartial(v, b0, n), fault |-> FALSE]
      ELSE LET r == 8 - o IN
           IF n >= r
           THEN beGetLoop(a, p + 1, 0, n - r, GetRestOfByte(v, b0, r))
           ELSE [p |-> p, o |-> o + n, v |-> GetPartOfByte(v, b0, r, n),
                 fault |-> FALSE]

beGet(a, p, o, n) ==
    IF n >= 64 THEN beGet64(a, p, o) ELSE beGetLoop(a, p, o, n, U64Zero)

\* a with byte i of the slice (a, p) set to x.
SetByte(a, p, i, x) == [a EXCEPT ![p + i + 1] = x]

\* The first k stores of a sequence of stores into b[0], b[1], ... .
RECURSIVE Store(_, _, _, _)
Store(a, p, xs, k) ==
    IF k = 0 THEN a ELSE SetByte(Store(a, p, xs, k - 1), p, k - 1, xs[k])

\* byte(v >> (8 * j)) for j = 7, 6, ..., 0.
U64Bytes(v) == [j \in 1..8 |-> byteOf(shr64(v, 8 * (8 - j)))]

bePut64(a, p, o, v) ==
    LET avail == Len(a) - p IN
    IF o = 0
    THEN IF avail >= 8
         THEN [a |-> Store(a, p, U64Bytes(v), 8), p |-> p + 8, o |-> o, fault |-> FALSE]
         ELSE [a |-> Store(a, p, U64Bytes(v), Max(avail, 0)), p |-> p, o |-> o,
               fault |-> TRUE]
    ELSE IF avail <= 0 THEN [a |-> a, p |-> p, o |-> o, fault |-> TRUE]
    ELSE LET r == 8 - o
             first == or8(andnot8(a[p + 1], shr8(255, o)), byteOf(shr64(v, 56 + o)))
             v2 == shl64(v, r)
             mid == U64Bytes(v2)
             a1 == SetByte(a, p, 0, first)
             \* b[1] .. b[7] hold byte(v2 >> 56) .. byte(v2 >> 8)
             a2 == Store(a1, p + 1, mid, Min(7, avail - 1))
         IN IF avail < 9 THEN [a |-> a2, p |-> p, o |-> o, fault |-> TRUE]
            ELSE [a |-> SetByte(a2, p, 8, or8(byteOf(v2), and8(a[p + 9], shr8(255, o)))),
                  p |-> p + 8, o |-> o, fault |-> FALSE]

\* The four stores to b[0] in bePut's loop; n is the count after "n -= ...".
PutFullByte(n, v) == byteOf(shr64(v, n))
PutLastPartialNoKeep(b0, n, v) == byteOf(shl64(v, 8 - n))
PutLastPartial(b0, n, v) == or8(byteOf(shl64(v, 8 - n)), and8(b0, shr8(255, n)))
PutRestOfByte(b0, o, n, v) ==
    LET m == shr8(255, o) IN or8(andnot8(b0, m), and8(byteOf(shr64(v, n)), m))
PutPartOfByte(b0, o, r, n, v) ==
    LET m == and8(shr8(255, o), shl8(255, r - n))
    IN or8(andnot8(b0, m), and8(byteOf(shl64(v, r - n)), m))

RECURSIVE bePutLoop(_, _, _, _, _)
bePutLoop(a0, p, o, n, v) == Only({
    IF n <= 0 THEN [a |-> a, p |-> p, o |-> o, fault |-> FALSE]
    ELSE IF p >= Len(a) THEN [a |-> a, p |-> p, o |-> o, fault |-> TRUE]
    ELSE LET b0 == a[p + 1] IN
      IF o = 0
      THEN IF n >= 8
           THEN bePutLoop(SetByte(a, p, 0, PutFullByte(n - 8, v)), p + 1, o, n - 8, v)
           ELSE [a |-> SetByte(a, p, 0, PutLastPartial(b0, n, v)),
                 p |-> p, o |-> n, fault |-> FALSE]
      ELSE LET r == 8 - o IN
           IF n >= r
           THEN bePutLoop(SetByte(a, p, 0, PutRestOfByte(b0, o, n - r, v)),
                          p + 1, 0, n - r, v)
           ELSE [a |-> SetByte(a, p, 0, PutPartOfByte(b0, o, r, n, v)),
                 p |-> p, o |-> o + n, fault |-> FALSE]
    : a \in {a0} })

bePut(a, p, o, n, v) ==
    IF n >= 64 THEN bePut64(a, p, o, v) ELSE bePutLoop(a, p, o, n, v)

(***************************************************************************)
(* Public single-bit and fixed-width integer access (BigEndianOrder).      *)
(***************************************************************************)
\* uintN(v): the conversion keeps the low w bits.
trunc64(v, w) == [i \in 1..64 |-> IF i > 64 - w THEN v[i] ELSE 0]

getNoNorm(x, xo, w) ==
    LET g == beGet(x, 0, xo % 8, w) IN [v |-> g.v, fault |-> g.fault]

get(x, xo, w) ==
    LET nm == beNorm(x, 0, xo) IN
    IF nm.fault THEN [v |-> U64Zero, fault |-> TRUE]
    ELSE LET g == beGet(x, nm.p, nm.o, w) IN [v |-> g.v, fault |-> g.fault]

Bit(x, xofs) == get(x, xofs, 1)

UintN(x, xofs, w) ==
    LET g == get(x, xofs, w) IN [v |-> trunc64(g.v, w), fault |-> g.fault]

put(z, zofs, w, v) ==
    LET g == beGrow(z, zofs, w) IN
    IF g.fault THEN [z |-> g.z, fault |-> TRUE]
    ELSE LET r == bePut(g.z.b, g.p, g.o, w, v)
         IN [z |-> [b |-> r.a, spare |-> g.z.spare], fault |-> r.fault]

PutBit(z, zofs, v) == put(z, zofs, 1, v)

\* The parameter of PutUintN has type uintN: it holds w bits.
PutUintN(z, zofs, w, v) == put(z, zofs, w, trunc64(v, w))

(***************************************************************************)
(* Concatenated-source extraction and the bit-field operations.            *)
(***************************************************************************)
\* copy(dst, src): min(len(dst), len(src)) bytes.
copy(dst, src) == [i \in 1..Len(dst) |-> IF i <= Len(src) THEN src[i] ELSE dst[i]]

\* b[k:] of a byte sequence.
From(b, k) == SubSeq(b, k + 1, Len(b))

\* (hi << obits) | (lo >> rbits), rbits = 8 - obits.
SpliceNoLow(hi, lo, obits) == shl8(hi, obits)
Splice(hi, lo, obits) == or8(shl8(hi, obits), shr8(lo, 8 - obits))

\* extract2's first loop: both bytes within x.
extract2InXNone(z, x, obits, i, xlen) == z
RECURSIVE extract2InX(_, _, _, _, _)
extract2InX(z, x, obits, i, xlen) ==
    IF i + 1 < xlen
    THEN extract2InX([z EXCEPT ![i + 1] = Splice(x[i + 1], x[i + 2], obits)],
                     x, obits, i + 1, xlen)
    ELSE z

\* extract2's last loop: both bytes within y.
extract2InYNone(z, y, obits, i, l, xlen) == [z |-> z, fault |-> FALSE]
RECURSIVE extract2InY(_, _, _, _, _, _)
extract2InY(z, y, obits, i, l, xlen) ==
    IF i >= l THEN [z |-> z, fault |-> FALSE]
    ELSE IF i + 1 - xlen >= Len(y) THEN [z |-> z, fault |-> TRUE]
    ELSE extract2InY([z EXCEPT ![i + 1] = Splice(y[i - xlen + 1], y[i - xlen + 2], obits)],
                     y, obits, i + 1, l, xlen)

extract2(z, x, y, ofs) ==
    LET l == Len(z)
        obits == ofs % 8
        obytes == ofs \div 8
        inX == obytes < Len(x)
    IN
    IF ~inX /\ obytes - Len(x) > Len(y) THEN [z |-> z, fault |-> TRUE]
    ELSE
    LET x1 == IF inX THEN From(x, obytes) ELSE From(y, obytes - Len(x))
        y1 == IF inX THEN y ELSE <<>>
        xlen == Len(x1)
        ylen == Len(y1)
    IN
    IF obits = 0
    THEN LET z1 == copy(z, x1) IN
         IF l > xlen
         THEN IF l > xlen + ylen THEN [z |-> z1, fault |-> TRUE]
              ELSE [z |-> SubSeq(z1, 1, xlen) \o copy(SubSeq(z1, xlen + 1, l), y1),
                    fault |-> FALSE]
         ELSE [z |-> z1, fault |-> FALSE]
    ELSE LET xlen2 == IF l < xlen THEN l + 1 ELSE xlen
             z1 == extract2InX(z, x1, obits, 0, xlen2)
             i == IF xlen2 >= 1 THEN xlen2 - 1 ELSE 0
         IN IF i < l
            THEN IF i >= xlen \/ ylen = 0 THEN [z |-> z1, fault |-> TRUE]
                 ELSE extract2InY([z1 EXCEPT ![i + 1] = Splice(x1[i + 1], y1[1], obits)],
                                  y1, obits, i + 1, l, xlen2)
            ELSE [z |-> z1, fault |-> FALSE]

zeroByte == <<0>>

\* mk(dst, l): dst if it has l bytes, else a new slice of l zero bytes.
mk(dst, l) == IF Len(dst.b) < l THEN Slice(Zeros(l)) ELSE dst

\* dst[l-1] &= byte(int(0xff00) >> lbits)
MaskRightEndNone(x, lbits) == x
MaskRightEnd(x, lbits) == and8(x, (65280 \div Pow2(lbits)) % 256)

\* fld[0] &= byte(0xff) >> (8 - lbits)
MaskLeftEnd(x, lbits) == and8(x, shr8(255, 8 - lbits))

\* The Left case of Bits on a destination that already has l bytes.
BitsLeft(dst, src, ofs, bits) ==
    LET l == (bits + 7) \div 8
        lbits == bits % 8
        e == extract2(SubSeq(dst.b, 1, l), src, zeroByte, ofs)
        rest == SubSeq(dst.b, l + 1, Len(dst.b))
    IN IF e.fault THEN [z |-> [dst EXCEPT !.b = e.z \o rest], fault |-> TRUE]
       ELSE LET f == IF lbits # 0
                     THEN [e.z EXCEPT ![l] = MaskRightEnd(e.z[l], lbits)]
                     ELSE e.z
            IN [z |-> [dst EXCEPT !.b = f \o Zeros(Len(rest))], fault |-> FALSE]

\* The Right case of Bits on a destination that already has l bytes.
BitsRight(dst, src, ofs, bits) ==
    LET l == (bits + 7) \div 8
        lbits == bits % 8
        pad == Len(dst.b) - l
        fld == From(dst.b, pad)
        e == IF lbits = 0 THEN extract2(fld, src, <<>>, ofs)
             ELSE extract2(fld, zeroByte, src, lbits + ofs)
    IN IF e.fault THEN [z |-> [dst EXCEPT !.b = Zeros(pad) \o e.z], fault |-> TRUE]
       ELSE LET f == IF lbits # 0
                     THEN [e.z EXCEPT ![1] = MaskLeftEnd(e.z[1], lbits)]
                     ELSE e.z
            IN [z |-> [dst EXCEPT !.b = Zeros(pad) \o f], fault |-> FALSE]

\* BigEndianBits.Bits (be.go), dstAlign in {"Left", "Right"}.
BigEndianBits_Bits(dst, src, ofs, bits, dstAlign) ==
    LET d == mk(dst, (bits + 7) \div 8) IN
    IF dstAlign = "Left" THEN BitsLeft(d, src, ofs, bits)
    ELSE IF dstAlign = "Right" THEN BitsRight(d, src, ofs, bits)
    ELSE [z |-> d, fault |-> FALSE]

\* BigEndianOrder.Bits: the left-aligned extraction, on a grown destination.
Bits(dst, src, ofs, bits) == BitsLeft(Grow(dst, (bits + 7) \div 8), src, ofs, bits)

\* SetBits: field within one byte.
SetBitsSameByte(zb, x0, obits, ebits) ==
    LET mask == and8(shr8(255, obits), shl8(255, 8 - ebits))
    IN or8(andnot8(zb, mask), and8(shr8(x0, obits), mask))

\* SetBits: last partial byte of a byte-aligned field.
SetBitsLastByte(zb, xb, ebits) ==
    LET mask == shr8(255, ebits) IN or8(and8(zb, mask), andnot8(xb, mask))

\* SetBits: first partial byte of a field that is not byte-aligned.
SetBitsFirstByteNoKeep(zb, x0, obits) == shr8(x0, obits)
SetBitsFirstByte(zb, x0, obits) == or8(andnot8(zb, shr8(255, obits)), shr8(x0, obits))

SetBits(z, x, ofs, bits) ==
    LET g == Grow(z, (ofs + bits + 7) \div 8)
        obytes == ofs \div 8
        obits == ofs % 8
        lbytes == bits \div 8
        ebytes == (ofs + bits) \div 8
        ebits == (ofs + bits) % 8
        Ret(b) == [z |-> [g EXCEPT !.b = b], fault |-> FALSE]
        Fault(b) == [z |-> [g EXCEPT !.b = b], fault |-> TRUE]
    IN
    IF bits = 0 THEN Ret(g.b)
    ELSE IF ebytes = obytes
    THEN IF Len(x) = 0 THEN Fault(g.b)
         ELSE Ret([g.b EXCEPT ![obytes + 1] = SetBitsSameByte(@, x[1], obits, ebits)])
    ELSE IF obits = 0
    THEN IF lbytes > Len(x) THEN Fault(g.b)
         ELSE LET z1 == SubSeq(g.b, 1, obytes)
                        \o copy(From(g.b, obytes), SubSeq(x, 1, lbytes))
              IN IF ebits > 0
                 THEN IF lbytes >= Len(x) THEN Fault(z1)
                      ELSE Ret([z1 EXCEPT ![obytes + lbytes + 1] =
                                   SetBitsLastByte(@, x[lbytes + 1], ebits)])
                 ELSE Ret(z1)
    ELSE IF Len(x) = 0 THEN Fault(g.b)
         ELSE Ret([g.b EXCEPT ![obytes + 1] = SetBitsFirstByte(@, x[1], obits)])

(***************************************************************************)
(* Bit-field copy, byte insertion and field growth.                        *)
(***************************************************************************)
\* beCopy from the slice (xa, xp) at xo into the slice (za, zp) at zo; the
\* two slices do not share memory.
RECURSIVE beCopy(_, _, _, _, _, _, _)
beCopy(za, zp, zo, xa, xp, xo, w) == Only({
    IF g.fault
    THEN [a |-> za, zp |-> zp, zo |-> zo, xp |-> xp, xo |-> xo, fault |-> TRUE]
    ELSE Only({
            IF r.fault
            THEN [a |-> r.a, zp |-> zp, zo |-> zo, xp |-> g.p, xo |-> g.o,
                  fault |-> TRUE]
            ELSE IF w >= 64 THEN beCopy(r.a, r.p, r.o, xa, g.p, g.o, w - 64)
            ELSE [a |-> r.a, zp |-> r.p, zo |-> r.o, xp |-> g.p, xo |-> g.o,
                  fault |-> FALSE]
         : r \in {IF w >= 64 THEN bePut64(za, zp, zo, g.v)
                  ELSE bePut(za, zp, zo, w, g.v)} })
    : g \in {IF w >= 64 THEN beGet64(xa, xp, xo) ELSE beGet(xa, xp, xo, w)} })

Copy(z, x, zofs, xofs, w) ==
    LET xn == beNorm(x, 0, xofs) IN
    IF xn.fault THEN [z |-> z, fault |-> TRUE]
    ELSE LET g == beGrow(z, zofs, w) IN
         IF g.fault THEN [z |-> g.z, fault |-> TRUE]
         ELSE LET c == beCopy(g.z.b, g.p, g.o, x, xn.p, xn.o, w)
              IN [z |-> [g.z EXCEPT !.b = c.a], fault |-> c.fault]

\* PutBytes' two loops over the bytes of b from index k.
RECURSIVE PutBytesLoop(_, _, _, _, _)
PutBytesLoop(a, p, o, b, k) ==
    IF Len(b) - k >= 8
    THEN Only({ IF r.fault THEN [a |-> r.a, fault |-> TRUE]
                ELSE PutBytesLoop(r.a, r.p, r.o, b, k + 8)
              : r \in {bePut64(a, p, o, U64FromBytes(SubSeq(b, k + 1, k + 8)))} })
    ELSE IF Len(b) - k > 0
    THEN Only({ IF r.fault THEN [a |-> r.a, fault |-> TRUE]
                ELSE PutBytesLoop(r.a, r.p, r.o, b, k + 1)
              : r \in {bePut(a, p, o, 8, U64(b[k + 1]))} })
    ELSE [a |-> a, fault |-> FALSE]

PutBytes(z, zofs, b) ==
    LET g == beGrow(z, zofs, Len(b) * 8) IN
    IF g.fault THEN [z |-> g.z, fault |-> TRUE]
    ELSE LET r == PutBytesLoop(g.z.b, g.p, g.o, b, 0)
         IN [z |-> [g.z EXCEPT !.b = r.a], fault |-> r.fault]

\* BigEndianField.Init: the field's slice position, sub-byte offset, width.
FieldInit(buf, ofs, width) ==
    [buf |-> buf, p |-> ofs \div 8, o |-> ofs % 8, w |-> width,
     fault |-> (ofs \div 8) > Len(buf.b)]

\* BigEndianField.Grow
FieldGrow(buf, ofs, width) == FieldInit(Grow(buf, (ofs + width) \div 8), ofs, width)

(***************************************************************************)
(* Rotation of a whole buffer.                                             *)
(***************************************************************************)
\* Go's n % m for m > 0: the remainder has the sign of n.
GoRem(n, m) == IF n >= 0 THEN n % m ELSE 0 - ((0 - n) % m)

\* The small left rotate: for i := l-1; i >= 0; i-- { v := src[i];
\* dst[i] = (v << n) | c; c = v >> rbits }.  With alias, src is dst itself.
RECURSIVE RotSmallLeftNoTemp(_, _, _, _, _, _)
RotSmallLeftNoTemp(dst0, src, n, c0, i, alias) == Only({
    IF i < 0 THEN dst
    ELSE Only({ RotSmallLeftNoTemp(d2, src, n,
                                   shr8(IF alias THEN d2[i + 1] ELSE src[i + 1], 8 - n),
                                   i - 1, alias)
              : d2 \in {[dst EXCEPT ![i + 1] =
                           or8(shl8(IF alias THEN dst[i + 1] ELSE src[i + 1], n), c)]} })
    : dst \in {dst0}, c \in {c0} })

RECURSIVE RotSmallLeft(_, _, _, _, _, _)
RotSmallLeft(dst0, src, n, c0, i, alias) == Only({
    IF i < 0 THEN dst
    ELSE LET v == IF alias THEN dst[i + 1] ELSE src[i + 1]
         IN RotSmallLeft([dst EXCEPT ![i + 1] = or8(shl8(v, n), c)],
                         src, n, shr8(v, 8 - n), i - 1, alias)
    : dst \in {dst0}, c \in {c0} })

\* The small right rotate by n: for i := 0; i < l; i++ { v := src[i];
\* dst[i] = (v >> n) | c; c = v << lbits }.
RECURSIVE RotSmallRight(_, _, _, _, _, _)
RotSmallRight(dst0, src, n, c0, i, alias) == Only({
    IF i >= Len(src) THEN dst
    ELSE LET v == IF alias THEN dst[i + 1] ELSE src[i + 1]
         IN RotSmallRight([dst EXCEPT ![i + 1] = or8(shr8(v, n), c)],
                          src, n, shl8(v, 8 - n), i + 1, alias)
    : dst \in {dst0}, c \in {c0} })

\* The carry a small left rotate starts with: c := src[0] >> rbits.
RotFirstCarryNone(src, n) == 0
RotFirstCarry(src, n) == shr8(src[1], 8 - n)

\* BigEndianBits.RotateLeft (be.go).  alias: dst and src are the same slice.
BigEndianBits_RotateLeft(dst, src, n0, alias) ==
    LET l == Len(src) IN
    IF l = 0 THEN [z |-> dst, fault |-> FALSE]
    ELSE
    LET d == mk(dst, l)
        n == IF n0 < -8 THEN l * 8 + GoRem(n0, l * 8) ELSE n0
        Ret(b) == [z |-> [d EXCEPT !.b = b], fault |-> FALSE]
    IN
    IF n > 8
    THEN LET e == extract2(SubSeq(d.b, 1, l), From(src, (n \div 8) % l), src, n % 8)
         IN [z |-> [d EXCEPT !.b = e.z \o From(d.b, l)], fault |-> e.fault]
    ELSE IF n = 0 THEN Ret(copy(d.b, src))
    ELSE IF n > 0
    THEN Ret(RotSmallLeft(d.b, src, n, RotFirstCarry(src, n), l - 1, alias))
    ELSE Ret(RotSmallRight(d.b, src, 0 - n, shl8(src[l], 8 + n), 0, alias))

\* BigEndianOrder.RotateLeft: the large rotation is two bit-field copies.
BigEndianOrder_RotateLeft(z, x, rot0, alias) ==
    LET g == Grow(z, Len(x))
        l == Len(x)
        Ret(b) == [z |-> [g EXCEPT !.b = b], fault |-> FALSE]
    IN
    IF rot0 = 0 \/ l = 0 THEN Ret(copy(g.b, x))
    ELSE IF rot0 > 0 /\ rot0 <= 8
    THEN Ret(RotSmallLeft(g.b, x, rot0, RotFirstCarry(x, rot0), l - 1, alias))
    ELSE IF rot0 < 0 /\ rot0 >= -8
    THEN Ret(RotSmallRight(g.b, x, 0 - rot0, shl8(x[l], 8 + rot0), 0, alias))
    ELSE
    LET w == l * 8
        r1 == GoRem(rot0, w)
        rot == IF r1 < 0 THEN r1 + w ELSE r1
        xn == beNorm(x, 0, rot)
    IN IF xn.fault THEN [z |-> g, fault |-> TRUE]
       ELSE Only({
          IF c1.fault THEN [z |-> [g EXCEPT !.b = c1.a], fault |-> TRUE]
          ELSE LET c2 == beCopy(c1.a, c1.zp, c1.zo, x, 0, 0, rot)
               IN [z |-> [g EXCEPT !.b = c2.a], fault |-> c2.fault]
          : c1 \in {beCopy(g.b, 0, 0, x, xn.p, xn.o, w - rot)} })

(***************************************************************************)
(* Whole-slice operations: zero counts, population count, boolean ops.     *)
(***************************************************************************)
\* bits.LeadingZeros8, bits.TrailingZeros8, bits.OnesCount8
LeadingZeros8Low(v) ==
    IF v = 0 THEN 8
    ELSE CHOOSE k \in 0..7 : ByteBit(v, 7 - k) = 1 /\ \A j \in 0..(k - 1) : ByteBit(v, 7 - j) = 0
LeadingZeros8(v) ==
    IF v = 0 THEN 8
    ELSE CHOOSE k \in 0..7 : ByteBit(v, k) = 1 /\ \A j \in 0..(k - 1) : ByteBit(v, j) = 0
TrailingZeros8(v) ==
    IF v = 0 THEN 8
    ELSE CHOOSE k \in 0..7 : ByteBit(v, 7 - k) = 1 /\ \A j \in 0..(k - 1) : ByteBit(v, 7 - j) = 0
OnesCount8(v) ==
    ByteBit(v, 0) + ByteBit(v, 1) + ByteBit(v, 2) + ByteBit(v, 3)
  + ByteBit(v, 4) + ByteBit(v, 5) + ByteBit(v, 6) + ByteBit(v, 7)

\* for _, v := range src { if v != 0 { return n + LeadingZeros8(v) }; n += 8 }
RECURSIVE LeadingZerosFrom(_, _, _)
LeadingZerosFrom(src, i, n) ==
    IF i >= Len(src) THEN n
    ELSE IF src[i + 1] # 0 THEN n + LeadingZeros8(src[i + 1])
    ELSE LeadingZerosFrom(src, i + 1, n + 8)

LeadingZeros(src) == LeadingZerosFrom(src, 0, 0)

\* for i := len(src)-1; i >= 0; i-- { ... }
RECURSIVE TrailingZerosFrom(_, _, _)
TrailingZerosFrom(src, i, n) ==
    IF i < 0 THEN n
    ELSE IF src[i + 1] # 0 THEN n + TrailingZeros8(src[i + 1])
    ELSE TrailingZerosFrom(src, i - 1, n + 8)

TrailingZeros(src) == TrailingZerosFrom(src, Len(src) - 1, 0)

RECURSIVE OnesCountFrom(_, _, _)
OnesCountFrom(src, i, n) ==
    IF i >= Len(src) THEN n ELSE OnesCountFrom(src, i + 1, n + OnesCount8(src[i + 1]))

OnesCount(src) == OnesCountFrom(src, 0, 0)

\* len2(x, y): len(x), or a panic when the lengths differ.
len2NoCheck(x, y) == [l |-> Len(x), fault |-> FALSE]
len2(x, y) == [l |-> Len(x), fault |-> Len(x) # Len(y)]

\* The byte each boolean operation stores: x[i] & y[i], x[i] &^ y[i],
\* x[i] | y[i], x[i] ^ y[i], ^x[i].
BoolByteSwapped(name, a, b) ==
    CASE name = "And" -> and8(b, a)
      [] name = "AndNot" -> andnot8(b, a)
      [] name = "Or" -> or8(b, a)
      [] name = "Xor" -> xor8(b, a)
      [] name = "Not" -> not8(b)
BoolByte(name, a, b) ==
    CASE name = "And" -> and8(a, b)
      [] name = "AndNot" -> andnot8(a, b)
      [] name = "Or" -> or8(a, b)
      [] name = "Xor" -> xor8(a, b)
      [] name = "Not" -> not8(a)

\* for i := range x { z[i] = x[i] op y[i] }.  alias names the source, if
\* any, that is the same slice as z.
RECURSIVE BoolLoop(_, _, _, _, _, _)
BoolLoop(name, z0, x, y, i, alias) == Only({
    IF i >= Len(x) THEN [b |-> z, fault |-> FALSE]
    ELSE IF name # "Not" /\ i >= Len(y) THEN [b |-> z, fault |-> TRUE]
    ELSE LET xv == IF alias = "x" THEN z[i + 1] ELSE x[i + 1]
             yv == IF name = "Not" THEN 0
                   ELSE IF alias = "y" THEN z[i + 1] ELSE y[i + 1]
         IN BoolLoop(name, [z EXCEPT ![i + 1] = BoolByte(name, xv, yv)],
                     x, y, i + 1, alias)
    : z \in {z0} })

\* And, AndNot, Or, Xor
BoolOp(name, z, x, y, alias) ==
    LET l == len2(x, y) IN
    IF l.fault THEN [z |-> z, fault |-> TRUE]
    ELSE LET g == Grow(z, l.l)
             r == BoolLoop(name, g.b, x, y, 0, alias)
         IN [z |-> [g EXCEPT !.b = r.b], fault |-> r.fault]

And(z, x, y, alias) == BoolOp("And", z, x, y, alias)
AndNot(z, x, y, alias) == BoolOp("AndNot", z, x, y, alias)
Or(z, x, y, alias) == BoolOp("Or", z, x, y, alias)
Xor(z, x, y, alias) == BoolOp("Xor", z, x, y, alias)

Not(z, x, alias) ==
    LET g == Grow(z, Len(x))
        r == BoolLoop("Not", g.b, x, <<>>, 0, alias)
    IN [z |-> [g EXCEPT !.b = r.b], fault |-> r.fault]

(***************************************************************************)
(* BigEndianField: the field as a cursor.  A field is its slice (the bytes *)
(* a from index p), its sub-byte offset o and its width w.                 *)
(***************************************************************************)
\* The field BigEndianField.Init leaves in z.
Field(buf, ofs, width) ==
    LET f == FieldInit(Slice(buf), ofs, width)
    IN [a |-> buf, p |-> f.p, o |-> f.o, w |-> f.w]

\* return 0, EOF
ReadBitsEOFMoved(cur) ==
    [v |-> U64Zero, err |-> "EOF", cur |-> [cur EXCEPT !.w = 0], fault |-> FALSE]
ReadBitsEOF(cur) == [v |-> U64Zero, err |-> "EOF", cur |-> cur, fault |-> FALSE]

\* z.w -= n
ShrinkNone(w, n) == w
Shrink(w, n) == w - n

\* BigEndianField.ReadBits
ReadBits(cur, n0) ==
    LET n == IF n0 > 64 THEN 64 ELSE n0 IN
    IF n > cur.w THEN ReadBitsEOF(cur)
    ELSE LET g == beGet(cur.a, cur.p, cur.o, n) IN
         IF g.fault THEN [v |-> U64Zero, err |-> "nil", cur |-> cur, fault |-> TRUE]
         ELSE [v |-> g.v, err |-> "nil",
               cur |-> [cur EXCEPT !.p = g.p, !.o = g.o, !.w = Shrink(cur.w, n)],
               fault |-> FALSE]

(***************************************************************************)
(* BigEndianField: boolean operations, Count and Fill.  The fields' slices *)
(* do not share memory.                                                    *)
(***************************************************************************)
\* The word each operation puts: xv, xv & yv, xv &^ yv, xv | yv, xv ^ yv, ^xv.
FieldOp64Swapped(name, xv, yv) ==
    CASE name = "Set" -> yv
      [] name = "And" -> and64(yv, xv)
      [] name = "AndNot" -> andnot64(yv, xv)
      [] name = "Or" -> or64(yv, xv)
      [] name = "Xor" -> xor64(yv, xv)
      [] name = "Not" -> not64(yv)
FieldOp64(name, xv, yv) ==
    CASE name = "Set" -> xv
      [] name = "And" -> and64(xv, yv)
      [] name = "AndNot" -> andnot64(xv, yv)
      [] name = "Or" -> or64(xv, yv)
      [] name = "Xor" -> xor64(xv, yv)
      [] name = "Not" -> not64(xv)

\* for w >= 64 { get 64 from x (and y); put 64 into z }; then the same for
\* the w bits left.  The loop does not change w.  z, x, y: [a, p, o].
RECURSIVE FieldOpLoop(_, _, _, _, _)
FieldOpLoop(name, z0, x0, y0, w) == Only({
    IF gx.fault \/ gy.fault THEN [a |-> z.a, fault |-> TRUE]
    ELSE Only({
            IF r.fault THEN [a |-> r.a, fault |-> TRUE]
            ELSE IF w >= 64
            THEN FieldOpLoop(name, [a |-> r.a, p |-> r.p, o |-> r.o],
                             [x EXCEPT !.p = gx.p, !.o = gx.o],
                             [y EXCEPT !.p = gy.p, !.o = gy.o], w)
            ELSE [a |-> r.a, fault |-> FALSE]
         : r \in {IF w >= 64
                  THEN bePut64(z.a, z.p, z.o, FieldOp64(name, gx.v, gy.v))
                  ELSE bePut(z.a, z.p, z.o, w, FieldOp64(name, gx.v, gy.v))} })
    : z \in {z0}, x \in {x0}, y \in {y0},
      gx \in {IF w >= 64 THEN beGet64(x0.a, x0.p, x0.o)
              ELSE beGet(x0.a, x0.p, x0.o, w)},
      gy \in {IF name \in {"Set", "Not"}
              THEN [p |-> y0.p, o |-> y0.o, v |-> U64Zero, fault |-> FALSE]
              ELSE IF w >= 64 THEN beGet64(y0.a, y0.p, y0.o)
              ELSE beGet(y0.a, y0.p, y0.o, w)} })

\* z.Set(x), z.And(x, y), z.AndNot(x, y), z.Or(x, y), z.Xor(x, y), z.Not(x):
\* the bytes of z's buffer afterwards, and the field z itself.
FieldOp(name, z, x, y) ==
    LET r == FieldOpLoop(name, [a |-> z.a, p |-> z.p, o |-> z.o],
                         [a |-> x.a, p |-> x.p, o |-> x.o],
                         [a |-> y.a, p |-> y.p, o |-> y.o], z.w)
    IN [a |-> r.a, z |-> [z EXCEPT !.a = r.a], fault |-> r.fault]

\* bits.OnesCount64
RECURSIVE OnesCount64From(_, _)
OnesCount64From(v, i) == IF i > 64 THEN 0 ELSE v[i] + OnesCount64From(v, i + 1)
OnesCount64(v) == OnesCount64From(v, 1)

\* (1 << w) - 1 as a uint64, w < 64.
Mask64Full(w) == U64Ones
Mask64(w) == [i \in 1..64 |-> IF i > 64 - w THEN 1 ELSE 0]

\* Count's loops for b = 0 and b = 1.
RECURSIVE CountLoop(_, _, _, _, _, _)
CountLoop(a, p, o, w, b, n) ==
    Only({ IF g.fault THEN [n |-> n, fault |-> TRUE]
           ELSE IF w >= 64
           THEN CountLoop(a, g.p, g.o, w, b,
                          n + OnesCount64(IF b = 0 THEN not64(g.v) ELSE g.v))
           ELSE [n |-> n + OnesCount64(IF b = 0 THEN xor64(g.v, Mask64(w)) ELSE g.v),
                 fault |-> FALSE]
         : g \in {IF w >= 64 THEN beGet64(a, p, o) ELSE beGet(a, p, o, w)} })

\* BigEndianField.Count
FieldCount(z, b) ==
    IF b \notin {0, 1} THEN [n |-> 0, fault |-> TRUE]
    ELSE CountLoop(z.a, z.p, z.o, z.w, b, 0)

\* Fill's loops for b = 0 and b = 1.
RECURSIVE FillLoop(_, _, _, _, _)
FillLoop(a, p, o, w, v) ==
    Only({ IF r.fault THEN [a |-> r.a, fault |-> TRUE]
           ELSE IF w >= 64 THEN FillLoop(r.a, r.p, r.o, w, v)
           ELSE [a |-> r.a, fault |-> FALSE]
         : r \in {IF w >= 64 THEN bePut64(a, p, o, v) ELSE bePut(a, p, o, w, v)} })

\* BigEndianField.Fill
FieldFill(z, b) ==
    IF b \notin {0, 1} THEN [a |-> z.a, fault |-> TRUE]
    ELSE FillLoop(z.a, z.p, z.o, z.w, IF b = 0 THEN U64Zero ELSE U64Ones)

\* rot = rot % w; if rot < 0 { rot += w }
RotStartBackward(rot, w) == (0 - rot) % w
RotStart(rot, w) == IF GoRem(rot, w) < 0 THEN GoRem(rot, w) + w ELSE GoRem(rot, w)

\* BigEndianField.RotateLeft: rot % w panics for w = 0; then two bit-field
\* copies.  The bytes of z's buffer afterwards.
FieldRotateLeft(z, x, rot0) ==
    IF z.w = 0 THEN [a |-> z.a, fault |-> TRUE]
    ELSE
    LET w == z.w
        rot == RotStart(rot0, w)
        xn == beNorm(x.a, x.p, x.o + rot)
    IN IF xn.fault THEN [a |-> z.a, fault |-> TRUE]
       ELSE Only({
          IF c1.fault THEN [a |-> c1.a, fault |-> TRUE]
          ELSE LET c2 == beCopy(c1.a, c1.zp, c1.zo, x.a, x.p, x.o, rot)
               IN [a |-> c2.a, fault |-> c2.fault]
          : c1 \in {beCopy(z.a, z.p, z.o, x.a, xn.p, xn.o, w - rot)} })

(***************************************************************************)
(* The earlier BigEndianOrder draft: single-bit access, and the counts of  *)
(* leading and trailing bits of either value.                              *)
(***************************************************************************)
\* uint(src[ofs >> 3] >> (7 - (ofs & 7))) & 1
BigEndianOrder_Bit(src, ofs) ==
    IF ofs \div 8 >= Len(src) THEN [v |-> 0, fault |-> TRUE]
    ELSE [v |-> shr8(src[(ofs \div 8) + 1], 7 - (ofs % 8)) % 2, fault |-> FALSE]

\* z[obytes] = (z[obytes] &^ (1 << obits)) | (byte(v & 1) << obits)
BigEndianOrder_SetBit(z, ofs, v) ==
    LET obytes == ofs \div 8
        obits == ofs % 8
        g == Grow(z, obytes + 1)
    IN [z |-> [g EXCEPT !.b[obytes + 1] =
                   or8(andnot8(g.b[obytes + 1], shl8(1, obits)), shl8(v % 2, obits))],
        fault |-> FALSE]

\* Leading's loops: `if v != 0` in both cases, LeadingZeros8(v) for b = 0
\* and LeadingZeros8(^v) for b = 1.
RECURSIVE LeadingFrom(_, _, _, _)
LeadingFrom(z, b, i, n) ==
    IF i >= Len(z) THEN n
    ELSE IF z[i + 1] # 0
    THEN n + LeadingZeros8(IF b = 0 THEN z[i + 1] ELSE not8(z[i + 1]))
    ELSE LeadingFrom(z, b, i + 1, n + 8)

Leading(z, b) ==
    IF b \notin {0, 1} THEN [n |-> 0, fault |-> TRUE]
    ELSE [n |-> LeadingFrom(z, b, 0, 0), fault |-> FALSE]

\* Trailing's loops: `if v != 0` for b = 0 and `if v != 0xff` for b = 1.
RECURSIVE TrailingFrom(_, _, _, _)
TrailingFrom(z, b, i, n) ==
    IF i < 0 THEN n
    ELSE IF z[i + 1] # (IF b = 0 THEN 0 ELSE 255)
    THEN n + TrailingZeros8(IF b = 0 THEN z[i + 1] ELSE not8(z[i + 1]))
    ELSE TrailingFrom(z, b, i - 1, n + 8)

Trailing(z, b) ==
    IF b \notin {0, 1} THEN [n |-> 0, fault |-> TRUE]
    ELSE [n |-> TrailingFrom(z, b, Len(z) - 1, 0), fault |-> FALSE]

(***************************************************************************)
(* Inputs.                                                                 *)
(***************************************************************************)
MaxLen == 3
MaxOfs == 17
WordBits == 64

\* Bytes a 64-bit word occupies at a sub-byte offset, and bytes that hold a
\* word at every offset up to MaxOfs.
WordLen == (WordBits \div 8) + 1
LongLen == (MaxOfs + WordBits + 7) \div 8

Pats == {0, 1, 2}

\* Byte i (from 1) of fill pattern k: all zero, all one, or the bytes
\* 0xB4 0x6D 0xCA repeated.
PatByte(k, i) ==
    IF k = 0 THEN 0 ELSE IF k = 1 THEN 255 ELSE <<180, 109, 202>>[((i - 1) % 3) + 1]

Buf(k, l) == [i \in 1..l |-> PatByte(k, i)]

ShortBufs == {Buf(k, l) : k \in Pats, l \in 0..MaxLen}
LongBufs == {Buf(k, LongLen) : k \in Pats}
WordBufs == {Buf(k, l) : k \in Pats, l \in {WordLen, WordLen + 1}}

\* 0, 2^64-1, 0x0123456789ABCDEF, 0xFEDCBA9876543210
Vals == {U64Zero, U64Ones,
         U64FromBytes(<<1, 35, 69, 103, 137, 171, 205, 239>>),
         U64FromBytes(<<254, 220, 186, 152, 118, 84, 50, 16>>)}

UintWidths == {8, 16, 32, 64}

\* Destinations: buffers with no spare capacity, and short ones with two
\* bytes of capacity left over from an earlier use.
Dsts == {Slice(b) : b \in ShortBufs \cup LongBufs}
        \cup {[b |-> Buf(2, l), spare |-> <<165, 90>>] : l \in 0..1}

MaxBits == 17
MaxRot == 33

\* A byte sequence with no period: byte i is (73 i + 41) mod 256.
Ramp(l) == [i \in 1..l |-> (i * 73 + 41) % 256]

\* Sources and destinations of the bit-field operations.
BitsSrcs == {Buf(k, l) : k \in {1, 2}, l \in 0..MaxLen}
BitsDsts == {NilSlice, Slice(Buf(1, 1)), Slice(Buf(1, MaxLen)),
             [b |-> <<>>, spare |-> <<165, 90>>]}
SetBitsDsts == {Slice(Buf(k, l)) : k \in {0, 1}, l \in {0, 2, MaxLen + 2}}
               \cup {[b |-> <<180>>, spare |-> <<165, 90>>]}
Aligns == {"Left", "Right"}

\* Sources and amounts of rotations: short buffers with every amount up to
\* MaxRot either way, and buffers of one word plus a byte and of two words
\* and two bytes with amounts around the word size and the buffer size.
RotSrcs == {Buf(k, l) : k \in {1, 2}, l \in 0..MaxLen} \cup {Ramp(l) : l \in 1..MaxLen}
LongRotSrcs == {Ramp(WordLen), Ramp(2 * WordLen)}
LongRots == {s * k : s \in {-1, 1},
                     k \in {9, 63, 64, 65, 71, 72, 73, 80, 136, 143, 144, 145, 150}}
RotDsts(src) == {NilSlice, Slice(Buf(1, Len(src))), Slice(Buf(1, Len(src) + 1))}
Orders == {"BigEndianBits", "BigEndianOrder"}
SecondRots == {-9, -8, -1, 0, 1, 7, 8, 9, 20}

\* Sources of the counts: the patterns, the ramps, and every buffer with a
\* single 1 bit.
OneBit(l, p) == [i \in 1..l |-> IF i - 1 = p \div 8 THEN Pow2(7 - (p % 8)) ELSE 0]
CountSrcs == ShortBufs \cup {Ramp(l) : l \in 1..MaxLen}
             \cup {OneBit(l, p) : l \in 1..MaxLen, p \in 0..(8 * MaxLen - 1)}

\* Sources and destinations of the boolean operations.
BoolSrcs == {<<255, 15>>, <<240, 255>>} \cup {Buf(k, l) : k \in {1, 2}, l \in 0..MaxLen}
            \cup {Ramp(l) : l \in 1..MaxLen}
BoolDsts(x) == {NilSlice, Slice(Buf(2, Len(x) + 1)), [b |-> <<>>, spare |-> <<165, 90>>]}
BoolNames == {"And", "AndNot", "Or", "Xor"}

\* Cursors: fields of the long ramp, and the bit counts requested of them.
MaxReads == 3
CursorOfs == {0, 3, 13}
CursorWidths == {0, 10, WordBits, WordBits + 6}
ReadNs == {-3, -1, 0, 1, 4, 6, WordBits, WordBits + 6}

\* Fields for the boolean operations, Count and Fill.
FieldOpNames == {"Set", "And", "AndNot", "Or", "Xor", "Not"}
FieldWidths == {0, 1, 5, 8, 13, MaxBits, WordBits - 1, WordBits}
BitValues == {0, 1, 2}

\* Amounts of field rotations: every amount around zero, and amounts
\* around a word either way.
FieldRots == ((0 - MaxBits - 2)..(MaxBits + 2))
             \cup {s * k : s \in {-1, 1}, k \in {WordBits, WordBits + 7}}

\* Sources, destinations and offsets of extract2.
ExtractXs == {Buf(2, n) : n \in 0..MaxLen}
ExtractYs == {Ramp(m) : m \in 0..MaxLen}
ExtractOfs == 0..(16 * MaxLen)

\* Slices for the draft's counts: the count sources and their complements.
Complement(s) == [i \in 1..Len(s) |-> not8(s[i])]
LeadSrcs == CountSrcs \cup {Complement(s) : s \in CountSrcs}

\* Destinations of the draft's SetBit.
SetBitDsts == {Slice(b) : b \in ShortBufs} \cup {[b |-> <<>>, spare |-> <<165, 90>>]}

(***************************************************************************)
(* The calls as actions.  op names the last call, arg its arguments, ret   *)
(* what it returned, prev the call before it.                              *)
(***************************************************************************)
Init == op = "idle" /\ arg = <<>> /\ ret = <<>> /\ prev = <<>>

Call(name, a, r) ==
    /\ op' = name
    /\ arg' = a
    /\ ret' = r
    /\ prev' = [op |-> op, arg |-> arg, ret |-> ret]

DoBePut ==
    /\ op = "idle"
    /\ \E a \in WordBufs, o \in 0..7, n \in 0..WordBits, v \in Vals \ {U64Zero} :
          Call("bePut", [a |-> a, o |-> o, n |-> n, v |-> v], bePut(a, 0, o, n, v))

DoPutBit ==
    /\ op = "idle"
    /\ \E z \in Dsts, zofs \in 0..MaxOfs, v \in Vals :
          Call("PutBit", [z |-> z, zofs |-> zofs, w |-> 1, v |-> v], PutBit(z, zofs, v))

DoPutUintN ==
    /\ op = "idle"
    /\ \E z \in Dsts, zofs \in 0..MaxOfs, w \in UintWidths, v \in Vals \ {U64Zero} :
          Call("PutUintN", [z |-> z, zofs |-> zofs, w |-> w, v |-> trunc64(v, w)],
               PutUintN(z, zofs, w, v))

\* Bit and UintN on the slice that PutBit or PutUintN returned.
ReadBackBit ==
    /\ op = "PutBit" /\ ~ret.fault
    /\ Call("Bit", [x |-> ret.z.b, xofs |-> arg.zofs, w |-> 1], Bit(ret.z.b, arg.zofs))

ReadBackUintN ==
    /\ op = "PutUintN" /\ ~ret.fault
    /\ Call("UintN", [x |-> ret.z.b, xofs |-> arg.zofs, w |-> arg.w],
            UintN(ret.z.b, arg.zofs, arg.w))

NextPut == DoBePut \/ DoPutBit \/ DoPutUintN \/ ReadBackBit \/ ReadBackUintN

SpecPut == Init /\ [][NextPut]_vars

DoBeGet ==
    /\ op = "idle"
    /\ \E a \in ShortBufs \cup WordBufs, o \in 0..7, n \in 0..WordBits :
          Call("beGet", [a |-> a, o |-> o, n |-> n], beGet(a, 0, o, n))

DoBit ==
    /\ op = "idle"
    /\ \E x \in ShortBufs, xofs \in 0..MaxOfs + 8 :
          Call("Bit", [x |-> x, xofs |-> xofs, w |-> 1], Bit(x, xofs))

DoUintN ==
    /\ op = "idle"
    /\ \E x \in ShortBufs \cup LongBufs, xofs \in 0..MaxOfs + 8, w \in UintWidths :
          Call("UintN", [x |-> x, xofs |-> xofs, w |-> w], UintN(x, xofs, w))

NextGet == DoBeGet \/ DoBit \/ DoUintN

SpecGet == Init /\ [][NextGet]_vars

DoPutBytes ==
    /\ op = "idle"
    /\ \E z \in Dsts, zofs \in 0..MaxOfs,
          b \in {Buf(2, l) : l \in 0..MaxLen} \cup {Buf(2, WordLen)} :
          Call("PutBytes", [z |-> z, zofs |-> zofs, w |-> 8 * Len(b), b |-> b],
               PutBytes(z, zofs, b))

DoCopy ==
    /\ op = "idle"
    /\ \E z \in Dsts, zofs \in {0, 1, 7, 8, 9, MaxOfs}, xofs \in {0, 3, 8, 13},
          w \in {0, 1, 5, 8, 11, 16, WordBits, WordBits + 6} :
          Call("Copy", [z |-> z, x |-> Buf(2, LongLen), zofs |-> zofs, xofs |-> xofs,
                        w |-> w],
               Copy(z, Buf(2, LongLen), zofs, xofs, w))

DoFieldGrow ==
    /\ op = "idle"
    /\ \E buf \in Dsts, ofs \in 0..MaxOfs, width \in 0..MaxBits :
          Call("Field.Grow", [z |-> buf, zofs |-> ofs, w |-> width],
               FieldGrow(buf, ofs, width))

NextGrow == DoPutBit \/ DoPutUintN \/ DoPutBytes \/ DoCopy \/ DoFieldGrow

SpecGrow == Init /\ [][NextGrow]_vars

DoBits ==
    /\ op = "idle"
    /\ \E dst \in BitsDsts, src \in BitsSrcs, ofs \in 0..MaxOfs, bits \in 0..MaxBits :
          Call("Bits", [dst |-> dst, src |-> src, ofs |-> ofs, bits |-> bits,
                        align |-> "Left", order |-> "BigEndianOrder"],
               Bits(dst, src, ofs, bits))

DoBitsAlign ==
    /\ op = "idle"
    /\ \E dst \in BitsDsts, src \in BitsSrcs, ofs \in 0..MaxOfs, bits \in 0..MaxBits,
          align \in Aligns :
          Call("Bits", [dst |-> dst, src |-> src, ofs |-> ofs, bits |-> bits,
                        align |-> align, order |-> "BigEndianBits"],
               BigEndianBits_Bits(dst, src, ofs, bits, align))

DoSetBits ==
    /\ op = "idle"
    /\ \E z \in SetBitsDsts, k \in Pats, ofs \in 0..MaxOfs, bits \in 0..MaxBits :
          LET x == Buf(k, (bits + 7) \div 8) IN
          Call("SetBits", [z |-> z, x |-> x, ofs |-> ofs, bits |-> bits],
               SetBits(z, x, ofs, bits))

\* Bits(nil, SetBits(z, x, ofs, bits), ofs, bits)
ReadBackBits ==
    /\ op = "SetBits" /\ ~ret.fault /\ prev.op = "idle"
    /\ Call("Bits", [dst |-> NilSlice, src |-> ret.z.b, ofs |-> arg.ofs,
                     bits |-> arg.bits, align |-> "Left", order |-> "BigEndianOrder"],
            Bits(NilSlice, ret.z.b, arg.ofs, arg.bits))

\* SetBits(copy of B, Bits(nil, B, o, w), o, w)
WriteBackSetBits ==
    /\ op = "Bits" /\ ~ret.fault /\ prev.op = "idle"
    /\ arg.order = "BigEndianOrder" /\ arg.dst = NilSlice
    /\ arg.ofs + arg.bits <= 8 * Len(arg.src)
    /\ Call("SetBits", [z |-> Slice(arg.src), x |-> ret.z.b, ofs |-> arg.ofs,
                        bits |-> arg.bits],
            SetBits(Slice(arg.src), ret.z.b, arg.ofs, arg.bits))

NextBits == DoBits \/ DoBitsAlign \/ DoSetBits \/ ReadBackBits \/ WriteBackSetBits
            \/ DoBit \/ DoUintN

SpecBits == Init /\ [][NextBits]_vars

RotateLeft(order, dst, src, n, alias) ==
    IF order = "BigEndianBits" THEN BigEndianBits_RotateLeft(dst, src, n, alias)
    ELSE BigEndianOrder_RotateLeft(dst, src, n, alias)

DoRotateLeft ==
    /\ op = "idle"
    /\ \E order \in Orders :
          \/ \E src \in RotSrcs, n \in (0 - MaxRot)..MaxRot :
             \E dst \in RotDsts(src) :
                Call("RotateLeft", [order |-> order, dst |-> dst, src |-> src, n |-> n],
                     RotateLeft(order, dst, src, n, FALSE))
          \/ \E src \in LongRotSrcs, n \in LongRots :
                Call("RotateLeft", [order |-> order, dst |-> NilSlice, src |-> src, n |-> n],
                     RotateLeft(order, NilSlice, src, n, FALSE))

\* RotateLeft(src, src, n), -8 <= n <= 8: dst and src are the same slice.
DoRotateInPlace ==
    /\ op = "idle"
    /\ \E order \in Orders, src \in RotSrcs, n \in -8..8 :
          Call("RotateLeftInPlace",
               [order |-> order, dst |-> Slice(src), src |-> src, n |-> n],
               RotateLeft(order, Slice(src), src, n, TRUE))

\* RotateLeft(nil, RotateLeft(nil, B, n1), n2)
RotateAgain ==
    /\ op = "RotateLeft" /\ ~ret.fault /\ prev.op = "idle" /\ arg.dst = NilSlice
    /\ \E n2 \in SecondRots \cup {0 - arg.n} :
          Call("RotateLeft", [order |-> arg.order, dst |-> NilSlice, src |-> ret.z.b,
                              n |-> n2],
               RotateLeft(arg.order, NilSlice, ret.z.b, n2, FALSE))

NextRot == DoRotateLeft \/ RotateAgain \/ DoRotateInPlace

SpecRot == Init /\ [][NextRot]_vars

DoLeadingZeros ==
    /\ op = "idle"
    /\ \E src \in CountSrcs :
          Call("LeadingZeros", [src |-> src], [n |-> LeadingZeros(src)])

DoTrailingZeros ==
    /\ op = "idle"
    /\ \E src \in CountSrcs :
          Call("TrailingZeros", [src |-> src], [n |-> TrailingZeros(src)])

DoOnesCount ==
    /\ op = "idle"
    /\ \E src \in CountSrcs :
          Call("OnesCount", [src |-> src], [n |-> OnesCount(src)])

DoBool ==
    /\ op = "idle"
    /\ \E name \in BoolNames, x \in BoolSrcs, y \in BoolSrcs :
       \E z \in BoolDsts(x) :
          Call(name, [z |-> z, x |-> x, y |-> y, alias |-> "none"],
               BoolOp(name, z, x, y, "none"))

\* z is the same slice as x or as y.
DoBoolInPlace ==
    /\ op = "idle"
    /\ \E name \in BoolNames, x \in BoolSrcs, y \in BoolSrcs, alias \in {"x", "y"} :
          LET z == Slice(IF alias = "x" THEN x ELSE y) IN
          Call(name, [z |-> z, x |-> x, y |-> y, alias |-> alias],
               BoolOp(name, z, x, y, alias))

DoNot ==
    /\ op = "idle"
    /\ \E x \in BoolSrcs :
          \/ \E z \in BoolDsts(x) :
                Call("Not", [z |-> z, x |-> x, y |-> <<>>, alias |-> "none"],
                     Not(z, x, "none"))
          \/ Call("Not", [z |-> Slice(x), x |-> x, y |-> <<>>, alias |-> "x"],
                  Not(Slice(x), x, "x"))

\* OnesCount of the slice a boolean operation returned.
CountResult ==
    /\ op \in BoolNames \cup {"Not"} /\ ~ret.fault
    /\ Call("OnesCount", [src |-> ret.z.b], [n |-> OnesCount(ret.z.b)])

NextBytes == DoLeadingZeros \/ DoTrailingZeros \/ DoOnesCount \/ DoBool
             \/ DoBoolInPlace \/ DoNot \/ CountResult

SpecBytes == Init /\ [][NextBytes]_vars

DoFieldInit ==
    /\ op = "idle"
    /\ \E ofs \in CursorOfs, width \in CursorWidths :
          Call("Field.Init", [buf |-> Ramp(LongLen), ofs |-> ofs, width |-> width],
               [cur |-> Field(Ramp(LongLen), ofs, width), fault |-> FALSE])

\* The next ReadBits on the cursor.  arg.init is the Init call the cursor
\* came from, arg.read the bits the earlier calls on it read successfully,
\* arg.k the number of earlier calls.  A call asking for more than a word,
\* or for a negative number of bits, is the last one made.
DoReadBits ==
    /\ ~(op = "idle") /\ op \in {"Field.Init", "ReadBits"} /\ ~ret.fault
    /\ op = "ReadBits" => arg.k + 1 < MaxReads /\ arg.n \in 0..WordBits
    /\ \E n \in ReadNs :
          Call("ReadBits",
               [n |-> n, cur |-> ret.cur,
                init |-> IF op = "ReadBits" THEN arg.init ELSE arg,
                read |-> IF op = "ReadBits"
                         THEN arg.read + (IF ret.err = "nil" THEN arg.n ELSE 0)
                         ELSE 0,
                k |-> IF op = "ReadBits" THEN arg.k + 1 ELSE 0],
               ReadBits(ret.cur, n))

NextCursor == DoFieldInit \/ DoReadBits

SpecCursor == Init /\ [][NextCursor]_vars

\* z.Set(x), z.And(x, y), ...: z in a buffer of zeros or ones, x in the
\* ramp and three bits wider than z, y in the patterned buffer.
DoFieldOp ==
    /\ op = "idle"
    /\ \E name \in FieldOpNames, k \in {0, 1}, zofs \in {0, 3, 9}, w \in FieldWidths,
          xofs \in {0, 5, 10}, yofs \in {2, 8} :
          LET z == Field(Buf(k, LongLen), zofs, w)
              x == Field(Ramp(LongLen), xofs, w + 3)
              y == Field(Buf(2, LongLen), yofs, w)
          IN Call("Field.Op", [name |-> name, z |-> z, x |-> x, y |-> y],
                  FieldOp(name, z, x, y))

DoFieldCount ==
    /\ op = "idle"
    /\ \E buf \in {Buf(1, LongLen), Buf(2, LongLen), Ramp(LongLen)}, ofs \in 0..MaxOfs,
          w \in (0..MaxBits) \cup {WordBits - 1, WordBits}, b \in BitValues :
          Call("Field.Count", [z |-> Field(buf, ofs, w), b |-> b],
               FieldCount(Field(buf, ofs, w), b))

DoFieldFill ==
    /\ op = "idle"
    /\ \E buf \in {Buf(0, LongLen), Buf(1, LongLen), Ramp(LongLen)}, ofs \in 0..MaxOfs,
          w \in (0..MaxBits) \cup {WordBits - 1, WordBits}, b \in BitValues :
          Call("Field.Fill", [z |-> Field(buf, ofs, w), b |-> b],
               FieldFill(Field(buf, ofs, w), b))

NextField == DoFieldOp \/ DoFieldCount \/ DoFieldFill

SpecField == Init /\ [][NextField]_vars

\* z.RotateLeft(x, rot): z in a buffer of zeros or ones, x in the ramp and
\* three bits wider than z.
DoFieldRotateLeft ==
    /\ op = "idle"
    /\ \E k \in {0, 1}, zofs \in {0, 3, 9}, w \in FieldWidths \cup {WordBits + 6},
          xofs \in {0, 5, 10}, rot \in FieldRots :
          LET z == Field(Buf(k, LongLen), zofs, w)
              x == Field(Ramp(LongLen), xofs, w + 3)
          IN Call("Field.RotateLeft", [z |-> z, x |-> x, rot |-> rot],
                  FieldRotateLeft(z, x, rot))

NextFieldRot == DoFieldRotateLeft

SpecFieldRot == Init /\ [][NextFieldRot]_vars

\* extract2(z, x, y, ofs) on a destination of l bytes.
DoExtract2 ==
    /\ op = "idle"
    /\ \E l \in 0..MaxLen, x \in ExtractXs, y \in ExtractYs, ofs \in ExtractOfs :
          Call("extract2", [z |-> Buf(1, l), x |-> x, y |-> y, ofs |-> ofs],
               extract2(Buf(1, l), x, y, ofs))

NextExtract == DoExtract2

SpecExtract == Init /\ [][NextExtract]_vars

DoLeading ==
    /\ op = "idle"
    /\ \E z \in LeadSrcs, b \in BitValues :
          Call("Leading", [z |-> z, b |-> b], Leading(z, b))

DoTrailing ==
    /\ op = "idle"
    /\ \E z \in LeadSrcs, b \in BitValues :
          Call("Trailing", [z |-> z, b |-> b], Trailing(z, b))

DoSetBit ==
    /\ op = "idle"
    /\ \E z \in SetBitDsts, ofs \in 0..MaxOfs, v \in 0..3 :
          Call("BigEndianOrder.SetBit", [z |-> z, ofs |-> ofs, v |-> v],
               BigEndianOrder_SetBit(z, ofs, v))

\* Bit on the slice the SetBit before it returned.
DoBitAfterSetBit ==
    /\ ~(op = "idle") /\ op = "BigEndianOrder.SetBit"
    /\ \E ofs \in 0..(8 * MaxLen + 7) :
          Call("BigEndianOrder.Bit", [src |-> ret.z.b, ofs |-> ofs], BigEndianOrder_Bit(ret.z.b, ofs))

NextDraft == DoLeading \/ DoTrailing \/ DoSetBit \/ DoBitAfterSetBit

SpecDraft == Init /\ [][NextDraft]_vars

(***************************************************************************)
(* Properties of the word primitives and the integer accessors.            *)
(***************************************************************************)
\* Bit j (from 0, first bit first) of the n-bit field held in the
\* least-significant n bits of v.
FieldBit(v, n, j) == v[64 - n + j + 1]

\* after is before with the n bits from bit position pos set to the low n
\* bits of v, and nothing else changed.
PutEffect(before, after, pos, n, v) ==
    /\ Len(after) = Len(before)
    /\ \A k \in 0..(8 * Len(before) - 1) :
          BitAt(after, k) = IF pos <= k /\ k < pos + n
                            THEN FieldBit(v, n, k - pos)
                            ELSE BitAt(before, k)

\* C1: bePut(b, o, n, v), 0 <= n <= 64, on a buffer holding the field sets
\* bits [o, o+n) to the low n bits of v, first bit most significant, whatever
\* the bits of v above bit n-1, changes no other bit and returns the position
\* o+n; PutBit and PutUintN, when they complete, do the same at zofs in the
\* slice they return.
C1_PutWritesOnlyTheField ==
    /\ (op = "bePut" /\ 8 * Len(arg.a) >= arg.o + arg.n) =>
          /\ ~ret.fault
          /\ PutEffect(arg.a, ret.a, arg.o, arg.n, arg.v)
          /\ 8 * ret.p + ret.o = arg.o + arg.n
          /\ ret.o \in 0..7
    /\ (op \in {"PutBit", "PutUintN"}) =>
          /\ 8 * Len(arg.z.b) >= arg.zofs + arg.w => ~ret.fault
          /\ ~ret.fault =>
                PutEffect(Grow(arg.z, Len(ret.z.b)).b, ret.z.b, arg.zofs, arg.w, arg.v)

\* A 13-bit put at offset 5 of a value with higher bits set into a buffer
\* of one bits, and a PutBit of an even value with higher bits set.
C1_Witness ==
    \/ /\ op = "bePut" /\ ~ret.fault
       /\ arg.o = 5 /\ arg.n = 13 /\ arg.v[64 - 13] = 1
       /\ arg.a = Buf(1, WordLen) /\ ret.a # arg.a
    \/ /\ op = "PutBit" /\ ~ret.fault
       /\ arg.v[64] = 0 /\ arg.v # U64Zero /\ arg.zofs = 11
       /\ ret.z.b # arg.z.b

\* C2: beGet(b, o, n), 0 <= n <= 64, on a buffer holding o+n bits returns the
\* bits [o, o+n) in the low n bits of the result, first bit most significant,
\* the other bits zero, and the position o+n with the offset in 0..7.
C2_GetReturnsTheField ==
    (op = "beGet" /\ 8 * Len(arg.a) >= arg.o + arg.n) =>
        /\ ~ret.fault
        /\ \A i \in 1..64 :
              ret.v[i] = IF i > 64 - arg.n
                         THEN BitAt(arg.a, arg.o + (i - (64 - arg.n)) - 1)
                         ELSE 0
        /\ 8 * ret.p + ret.o = arg.o + arg.n
        /\ ret.o \in 0..7

\* A 3-bit get inside one byte with one bits on both sides, and a 64-bit
\* get at a sub-byte offset.
C2_Witness ==
    /\ op = "beGet" /\ ~ret.fault
    /\ \/ arg.o = 2 /\ arg.n = 3 /\ arg.a = Buf(1, 1)
       \/ arg.o = 3 /\ arg.n = 64 /\ arg.a = Buf(2, WordLen) /\ ret.p = 8

\* C3: Bit/UintN at ofs on the slice PutBit/PutUintN(z, ofs, v) returned
\* yields v (for PutBit, the low bit of v), for every z that already holds
\* the field.
C3_PutThenGet ==
    /\ (op \in {"PutBit", "PutUintN"} /\ 8 * Len(arg.z.b) >= arg.zofs + arg.w) =>
          ~ret.fault
    /\ (op \in {"Bit", "UintN"} /\ prev.op \in {"PutBit", "PutUintN"}) =>
          /\ ~ret.fault
          /\ ret.v = trunc64(prev.arg.v, prev.arg.w)

C3_Witness ==
    /\ op = "UintN" /\ prev.op = "PutUintN"
    /\ arg.w = 16 /\ arg.xofs = 13
    /\ 8 * Len(prev.arg.z.b) >= 29
    /\ ret.v = prev.arg.v /\ ret.v # U64Zero

(***************************************************************************)
(* Properties of the bit-field operations.                                 *)
(***************************************************************************)
\* The bytes hold exactly the first n bits of x, left-aligned, then zeros.
IsLeftField(bytes, x, xofs, n) ==
    \A k \in 0..(8 * Len(bytes) - 1) :
       BitAt(bytes, k) = IF k < n THEN BitAt(x, xofs + k) ELSE 0

\* The bytes hold exactly n bits of x in their last n positions, after zeros.
IsRightField(bytes, x, xofs, n) ==
    LET pad == 8 * Len(bytes) - n IN
    \A k \in 0..(8 * Len(bytes) - 1) :
       BitAt(bytes, k) = IF k >= pad THEN BitAt(x, xofs + k - pad) ELSE 0

\* C4: for every z, ofs, bits >= 1 and left-aligned x of ceil(bits/8) bytes,
\* SetBits(z, x, ofs, bits) completes and Bits(nil, SetBits(z, x, ofs, bits),
\* ofs, bits) returns x with the bits from position bits on zeroed, for
\* every shape of field.
C4_SetBitsThenBits ==
    /\ (op = "SetBits" /\ prev.op = "idle" /\ arg.bits >= 1) => ~ret.fault
    /\ (op = "Bits" /\ prev.op = "SetBits" /\ arg.bits >= 1) =>
          /\ ~ret.fault
          /\ Len(ret.z.b) = (arg.bits + 7) \div 8
          /\ IsLeftField(ret.z.b, prev.arg.x, 0, arg.bits)

\* C5: for all B, o, w with o+w <= 8*len(B), SetBits(copy of B,
\* Bits(nil, B, o, w), o, w) returns a slice with the length and bytes of B.
C5_BitsThenSetBits ==
    (op = "SetBits" /\ prev.op = "Bits") =>
        /\ ~ret.fault
        /\ ret.z.b = prev.arg.src

\* A 12-bit field at offset 4 and a 3-bit field at offset 10 of the
\* patterned three-byte buffer, extracted and written back.
C5_Witness ==
    /\ op = "SetBits" /\ prev.op = "Bits" /\ ~ret.fault
    /\ prev.arg.src = Buf(2, MaxLen) /\ ret.z.b = prev.arg.src
    /\ \/ arg.ofs = 4 /\ arg.bits = 12 /\ arg.x = <<70, 208>>
       \/ arg.ofs = 10 /\ arg.bits = 3 /\ arg.x = <<160>>

\* C6: PutBit, PutUintN, PutBytes and Copy into any z complete without a
\* bounds fault for every zofs and w, and BigEndianField.Grow leaves a
\* buffer of at least ceil((ofs+width)/8) bytes.
C6_GrowHoldsTheField ==
    /\ op \in {"PutBit", "PutUintN", "PutBytes"} => ~ret.fault
    /\ (op = "Copy" /\ arg.xofs + arg.w <= 8 * Len(arg.x)) => ~ret.fault
    /\ op = "Field.Grow" =>
          /\ ~ret.fault
          /\ 8 * Len(ret.buf.b) >= arg.zofs + arg.w

\* C7: for ofs+bits <= 8*len(src) and every dst, Bits returns a slice of at
\* least ceil(bits/8) bytes that, for Left, has bit i < bits equal to bit
\* ofs+i of src and every other bit 0, and, for Right, has its last bits
\* positions equal to bits ofs..ofs+bits-1 of src and every earlier bit 0,
\* whatever dst held.
C7_BitsExtractsTheField ==
    (op = "Bits" /\ prev.op = "idle" /\ arg.ofs + arg.bits <= 8 * Len(arg.src)) =>
        /\ ~ret.fault
        /\ Len(ret.z.b) = Max(Len(arg.dst.b), (arg.bits + 7) \div 8)
        /\ IF arg.align = "Left"
           THEN IsLeftField(ret.z.b, arg.src, arg.ofs, arg.bits)
           ELSE IsRightField(ret.z.b, arg.src, arg.ofs, arg.bits)

\* An 11-bit field at offset 5 of the patterned buffer, right-aligned into
\* three bytes of ones by BigEndianBits, and left-aligned by BigEndianOrder.
C7_Witness ==
    /\ op = "Bits" /\ prev.op = "idle" /\ ~ret.fault
    /\ arg.src = Buf(2, MaxLen) /\ arg.ofs = 5 /\ arg.bits = 11
    /\ \/ /\ arg.order = "BigEndianBits" /\ arg.align = "Right"
          /\ arg.dst = Slice(Buf(1, MaxLen)) /\ ret.z.b = <<0, 4, 109>>
       \/ /\ arg.order = "BigEndianOrder" /\ arg.dst = NilSlice
          /\ ret.z.b = <<141, 160>>

\* C8: Bit, UintN and Bits of a field [ofs, ofs+width), width >= 1, that
\* extends past bit 8*len(src) end in a bounds fault.
C8_ReadPastEndFaults ==
    /\ (op \in {"Bit", "UintN"} /\ arg.xofs + arg.w > 8 * Len(arg.x)) => ret.fault
    /\ (op = "Bits" /\ prev.op = "idle" /\ arg.bits >= 1
          /\ arg.ofs + arg.bits > 8 * Len(arg.src)) => ret.fault

(***************************************************************************)
(* Properties of rotation.                                                 *)
(***************************************************************************)
\* C9: RotateLeft(nil, src, n) of L >= 1 bytes returns L bytes whose bit i
\* is bit (i + n) mod 8L of src, for every n; of an empty src it returns
\* the destination unchanged.
C9_RotateLeftMovesBits ==
    (op = "RotateLeft" /\ prev.op = "idle") =>
        /\ ~ret.fault
        /\ IF Len(arg.src) = 0 THEN ret.z = arg.dst
           ELSE /\ Len(arg.dst.b) <= Len(arg.src) => Len(ret.z.b) = Len(arg.src)
                /\ \A i \in 0..(8 * Len(arg.src) - 1) :
                      BitAt(ret.z.b, i) =
                         BitAt(arg.src, (i + arg.n) % (8 * Len(arg.src)))

\* Rotations of the three-byte ramp by -20 (beyond a byte, negative), by 5
\* (small path) and by 33 (beyond the buffer); of the two-word ramp by 143.
C9_Witness ==
    /\ op = "RotateLeft" /\ prev.op = "idle" /\ ~ret.fault /\ arg.dst = NilSlice
    /\ ret.z.b # arg.src
    /\ \/ arg.src = Ramp(MaxLen) /\ arg.n \in {-20, 5, 33}
       \/ arg.src = Ramp(2 * WordLen) /\ arg.n = 143

\* C10: with fresh destinations, RotateLeft(RotateLeft(B, n1), n2) equals
\* RotateLeft(B, n1+n2), RotateLeft(B, 0) equals B, and
\* RotateLeft(RotateLeft(B, n), -n) equals B.
C10_RotationsCompose ==
    /\ (op = "RotateLeft" /\ arg.dst = NilSlice /\ arg.n = 0) =>
          ~ret.fault /\ ret.z.b = arg.src
    /\ (op = "RotateLeft" /\ prev.op = "RotateLeft") =>
          /\ ~ret.fault
          /\ ret.z.b = RotateLeft(arg.order, NilSlice, prev.arg.src,
                                  prev.arg.n + arg.n, FALSE).z.b
          /\ arg.n = 0 - prev.arg.n => ret.z.b = prev.arg.src

\* A large rotation of the three-byte ramp followed by a small one, and a
\* small rotation undone by its negation.
C10_Witness ==
    /\ op = "RotateLeft" /\ prev.op = "RotateLeft" /\ ~ret.fault
    /\ prev.arg.src = Ramp(MaxLen) /\ arg.src # prev.arg.src
    /\ \/ prev.arg.n = 20 /\ arg.n = -1 /\ ret.z.b # prev.arg.src
       \/ prev.arg.n = 5 /\ arg.n = -5 /\ ret.z.b = prev.arg.src

\* C11: for -8 <= n <= 8, RotateLeft with dst and src the same slice
\* produces the bytes RotateLeft produces into a fresh destination.
C11_InPlaceRotation ==
    op = "RotateLeftInPlace" =>
        /\ ~ret.fault
        /\ ret.z.b = RotateLeft(arg.order, NilSlice, arg.src, arg.n, FALSE).z.b

\* The three-byte ramp rotated in place by 5 and by -3.
C11_Witness ==
    /\ op = "RotateLeftInPlace" /\ ~ret.fault
    /\ arg.src = Ramp(MaxLen) /\ arg.n \in {-3, 5} /\ ret.z.b # arg.src

\* C12: for every dst, src and n the slice RotateLeft returns has length
\* exactly len(src), also when dst is longer than src and when src is empty.
C12_RotateLeftLength ==
    op \in {"RotateLeft", "RotateLeftInPlace"} => Len(ret.z.b) = Len(arg.src)

(***************************************************************************)
(* Properties of the whole-slice operations.                               *)
(***************************************************************************)
\* The positions of the 1 bits of B.
Ones(B) == {k \in 0..(8 * Len(B) - 1) : BitAt(B, k) = 1}

\* C13: LeadingZeros(B) is the position of the first 1 bit, TrailingZeros(B)
\* is 8*len(B)-1 minus the position of the last 1 bit, and both are
\* 8*len(B) when B has no 1 bit.
C13_ZeroCounts ==
    /\ op = "LeadingZeros" =>
          ret.n = IF Ones(arg.src) = {} THEN 8 * Len(arg.src)
                  ELSE CHOOSE k \in Ones(arg.src) : \A j \in Ones(arg.src) : k <= j
    /\ op = "TrailingZeros" =>
          ret.n = IF Ones(arg.src) = {} THEN 8 * Len(arg.src)
                  ELSE 8 * Len(arg.src) - 1
                       - (CHOOSE k \in Ones(arg.src) : \A j \in Ones(arg.src) : k >= j)

\* The single 1 bit at position 13 of three bytes.
C13_Witness ==
    /\ op \in {"LeadingZeros", "TrailingZeros"}
    /\ arg.src = OneBit(MaxLen, 13)
    /\ ret.n = IF op = "LeadingZeros" THEN 13 ELSE 8 * MaxLen - 14

\* The bit function each boolean operation is named after.
BoolBit(name, p, q) ==
    CASE name = "And" -> bitAnd(p, q)
      [] name = "AndNot" -> bitAndNot(p, q)
      [] name = "Or" -> bitOr(p, q)
      [] name = "Xor" -> bitXor(p, q)
      [] name = "Not" -> 1 - p

\* C14: for equal-length x, y and any z, also z the same slice as x or y,
\* And/AndNot/Or/Xor/Not return a slice whose first len(x) bytes are x
\* combined with y by the operator and whose later bytes are those of z;
\* And([0xFF,0x0F],[0xF0,0xFF]) is [0xF0,0x0F] and its OnesCount is 8.
C14_BooleanOps ==
    /\ (op \in BoolNames \cup {"Not"} /\ (op = "Not" \/ Len(arg.x) = Len(arg.y))) =>
          /\ ~ret.fault
          /\ Len(ret.z.b) = Max(Len(arg.z.b), Len(arg.x))
          /\ \A k \in 0..(8 * Len(arg.x) - 1) :
                BitAt(ret.z.b, k) =
                   BoolBit(op, BitAt(arg.x, k), IF op = "Not" THEN 0 ELSE BitAt(arg.y, k))
          /\ \A i \in (Len(arg.x) + 1)..Len(ret.z.b) : ret.z.b[i] = arg.z.b[i]
    /\ (op = "And" /\ arg.x = <<255, 15>> /\ arg.y = <<240, 255>> /\ Len(arg.z.b) <= 2) =>
          ret.z.b = <<240, 15>>
    /\ op = "OnesCount" =>
          /\ ret.n = Cardinality(Ones(arg.src))
          /\ arg.src = <<240, 15>> => ret.n = 8

\* OnesCount of And(nil, [0xFF,0x0F], [0xF0,0xFF]), and an AndNot stored
\* into its own second source.
C14_Witness ==
    \/ /\ op = "OnesCount" /\ prev.op = "And" /\ prev.arg.z = NilSlice
       /\ prev.arg.x = <<255, 15>> /\ prev.arg.y = <<240, 255>>
       /\ arg.src = <<240, 15>> /\ ret.n = 8
    \/ /\ op = "AndNot" /\ arg.alias = "y" /\ arg.x = Buf(1, MaxLen)
       /\ arg.y = Ramp(MaxLen) /\ ~ret.fault /\ ret.z.b # arg.y

\* C15: when len(x) # len(y), And, AndNot, Or and Xor fault and return
\* with z as it was passed: not grown, reallocated or written.
C15_LengthMismatchFaults ==
    (op \in BoolNames /\ Len(arg.x) # Len(arg.y)) =>
        /\ ret.fault
        /\ ret.z = arg.z

\* Or of a two-byte and a three-byte source, into nil and into a slice with
\* spare capacity.
C15_Witness ==
    /\ op = "Or" /\ Len(arg.x) = 2 /\ Len(arg.y) = MaxLen /\ ret.fault
    /\ arg.z \in {NilSlice, [b |-> <<>>, spare |-> <<165, 90>>]}

(***************************************************************************)
(* Properties of the field cursor.                                         *)
(***************************************************************************)
\* v holds in its low n bits the n bits of buf from bit position pos, and
\* zeros above them.
HoldsBits(v, n, buf, pos) ==
    \A i \in 1..64 :
       v[i] = IF i > 64 - n THEN BitAt(buf, pos + (i - (64 - n)) - 1) ELSE 0

\* C16: when ReadBits returns EOF the cursor's position, offset and width
\* are what they were and the value is 0; on a 10-bit field, after a
\* ReadBits(6) that succeeded, ReadBits(6) returns EOF and ReadBits(4)
\* returns the last 4 bits, also after such an EOF.
C16_EOFLeavesTheCursor ==
    /\ (op = "ReadBits" /\ ret.err = "EOF") =>
          /\ ret.cur = arg.cur
          /\ ret.v = U64Zero
          /\ ~ret.fault
    /\ (op = "ReadBits" /\ arg.init.width = 10 /\ arg.read = 6) =>
          /\ arg.n = 6 => ret.err = "EOF"
          /\ arg.n = 4 =>
                /\ ret.err = "nil" /\ ~ret.fault
                /\ HoldsBits(ret.v, 4, arg.init.buf, arg.init.ofs + 6)

\* On the 10-bit field at offset 3: ReadBits(6), ReadBits(6) = EOF, then
\* ReadBits(4).
C16_Witness ==
    /\ op = "ReadBits" /\ prev.op = "ReadBits"
    /\ arg.init.width = 10 /\ arg.init.ofs = 3
    /\ arg.k = 2 /\ arg.read = 6 /\ prev.arg.read = 6
    /\ prev.arg.n = 6 /\ prev.ret.err = "EOF"
    /\ arg.n = 4 /\ ret.err = "nil" /\ ret.v # U64Zero /\ ret.cur.w = 0

\* C17: ReadBits(n) returns EOF whenever n exceeds the remaining width, also
\* for n > 64 on a field with at least 64 but fewer than n bits left.
C17_EOFBeyondTheWidth ==
    (op = "ReadBits" /\ arg.n > arg.cur.w) => ret.err = "EOF"

\* C18: with every n in 0..64, a successful ReadBits(n) returns the n bits
\* of the buffer from ofs plus the bits read successfully before, the
\* remaining width is w minus all the bits read successfully, and a failed
\* call leaves both as they were.
C18_ReadsAreConsecutive ==
    (op = "ReadBits" /\ arg.n \in 0..WordBits) =>
        /\ ~ret.fault
        /\ arg.cur.w = arg.init.width - arg.read
        /\ ret.err = "nil" =>
              /\ HoldsBits(ret.v, arg.n, arg.init.buf, arg.init.ofs + arg.read)
              /\ ret.cur.w = arg.init.width - arg.read - arg.n
        /\ ret.err # "nil" => ret.cur.w = arg.init.width - arg.read

\* A third successful read, of 4 bits after 1 and 6, from the 64-bit field
\* at offset 13; and, on the 10-bit field, 6 bits read after 4 bits and a
\* failed request for 64.
C18_Witness ==
    /\ op = "ReadBits" /\ prev.op = "ReadBits" /\ ret.err = "nil" /\ ~ret.fault
    /\ arg.init.ofs = 13
    /\ \/ /\ arg.init.width = WordBits /\ arg.k = 2 /\ arg.read = 7 /\ arg.n = 4
          /\ ret.cur.w = WordBits - 11 /\ ret.v # U64Zero
       \/ /\ arg.init.width = 10 /\ prev.ret.err = "EOF" /\ prev.arg.n = WordBits
          /\ arg.read = 4 /\ arg.n = 6 /\ ret.cur.w = 0

(***************************************************************************)
(* Properties of the field operations.                                     *)
(***************************************************************************)
\* The bit position in its buffer at which a field starts.
FieldPos(f) == 8 * f.p + f.o

\* C19: for z of width w < 64 and x, y at least as wide in other buffers at
\* any offsets, z.Set/And/AndNot/Or/Xor/Not sets bit i < w of z's field to
\* the named function of bit i of x's and y's fields, changes no bit of z's
\* buffer outside the field, and leaves z's position and width as they were.
C19_FieldOps ==
    (op = "Field.Op" /\ arg.z.w < WordBits) =>
        /\ ~ret.fault
        /\ Len(ret.a) = Len(arg.z.a)
        /\ \A k \in 0..(8 * Len(arg.z.a) - 1) :
              BitAt(ret.a, k) =
                 IF FieldPos(arg.z) <= k /\ k < FieldPos(arg.z) + arg.z.w
                 THEN LET i == k - FieldPos(arg.z)
                          xbit == BitAt(arg.x.a, FieldPos(arg.x) + i)
                          ybit == BitAt(arg.y.a, FieldPos(arg.y) + i)
                      IN IF arg.name = "Set" THEN xbit
                         ELSE BoolBit(arg.name, xbit, ybit)
                 ELSE BitAt(arg.z.a, k)
        /\ ret.z.p = arg.z.p /\ ret.z.o = arg.z.o /\ ret.z.w = arg.z.w

\* A 13-bit AndNot into the field at offset 9 of a buffer of ones, from
\* fields at offsets 5 and 2; and a 63-bit Not.
C19_Witness ==
    /\ op = "Field.Op" /\ ~ret.fault /\ ret.a # arg.z.a
    /\ arg.z.a = Buf(1, LongLen) /\ FieldPos(arg.z) = 9
    /\ \/ /\ arg.name = "AndNot" /\ arg.z.w = 13
          /\ FieldPos(arg.x) = 5 /\ FieldPos(arg.y) = 2
       \/ arg.name = "Not" /\ arg.z.w = WordBits - 1 /\ FieldPos(arg.x) = 10

\* C20: for z of width w < 64, Count(b), b in {0, 1}, is the number of bits
\* equal to b among the w bits of the field; Fill(b) sets the w field bits
\* to b and no other bit; for any other b both fault and the buffer is as it
\* was.
C20_CountAndFill ==
    /\ (op = "Field.Count" /\ arg.z.w < WordBits) =>
          IF arg.b \in {0, 1}
          THEN /\ ~ret.fault
               /\ ret.n = Cardinality({k \in 0..(arg.z.w - 1) :
                                         BitAt(arg.z.a, FieldPos(arg.z) + k) = arg.b})
          ELSE ret.fault
    /\ (op = "Field.Fill" /\ arg.z.w < WordBits) =>
          IF arg.b \in {0, 1}
          THEN /\ ~ret.fault
               /\ Len(ret.a) = Len(arg.z.a)
               /\ \A k \in 0..(8 * Len(arg.z.a) - 1) :
                     BitAt(ret.a, k) =
                        IF FieldPos(arg.z) <= k /\ k < FieldPos(arg.z) + arg.z.w
                        THEN arg.b ELSE BitAt(arg.z.a, k)
          ELSE ret.fault /\ ret.a = arg.z.a

\* Count(0) of an 11-bit field at offset 5 of the patterned buffer, which
\* has 5 zero bits in the field and more in its bytes.
C20_Witness ==
    /\ op = "Field.Count" /\ ~ret.fault
    /\ arg.z.a = Buf(2, LongLen) /\ FieldPos(arg.z) = 5 /\ arg.z.w = 11
    /\ arg.b = 0 /\ ret.n = 5

\* C21: for z of width w >= 1 and x at least w bits wide in another buffer,
\* z.RotateLeft(x, rot) sets bit i of z's field to bit (i + rot) mod w of
\* x's field for every rot, and changes no bit of z's buffer outside the
\* field.
C21_FieldRotateLeft ==
    (op = "Field.RotateLeft" /\ arg.z.w >= 1) =>
        /\ ~ret.fault
        /\ Len(ret.a) = Len(arg.z.a)
        /\ \A k \in 0..(8 * Len(arg.z.a) - 1) :
              BitAt(ret.a, k) =
                 IF FieldPos(arg.z) <= k /\ k < FieldPos(arg.z) + arg.z.w
                 THEN BitAt(arg.x.a, FieldPos(arg.x)
                                       + ((k - FieldPos(arg.z) + arg.rot) % arg.z.w))
                 ELSE BitAt(arg.z.a, k)

\* A 13-bit field rotated by -5 and by 16, and a 70-bit field rotated by 7.
C21_Witness ==
    /\ op = "Field.RotateLeft" /\ ~ret.fault /\ ret.a # arg.z.a
    /\ FieldPos(arg.z) = 3 /\ FieldPos(arg.x) = 10
    /\ \/ arg.z.w = 13 /\ arg.rot \in {-5, 16}
       \/ arg.z.w = WordBits + 6 /\ arg.rot = 7

\* C30: on a zero-width destination field RotateLeft(x, rot) returns
\* normally for every rot and changes no bit.
C30_ZeroWidthRotation ==
    (op = "Field.RotateLeft" /\ arg.z.w = 0) =>
        /\ ~ret.fault
        /\ ret.a = arg.z.a

(***************************************************************************)
(* Further properties of the bit-field operations and of the writes.       *)
(***************************************************************************)
\* The call Bits(nil, [0b10110100, 0b01101101, 0b11001010], 14, 5), left
\* aligned, in either implementation.
C22_TheCall ==
    /\ op = "Bits" /\ prev.op = "idle"
    /\ arg.dst = NilSlice /\ arg.src = <<180, 109, 202>>
    /\ arg.ofs = 14 /\ arg.bits = 5 /\ arg.align = "Left"

\* C22 (as amended): the 5-bit field at bit offset 14 of [0b10110100,
\* 0b01101101, 0b11001010], big-endian and left-aligned, is the single byte
\* 0b01110000 (field bits 01110).
C22_FieldAt14 == C22_TheCall => ~ret.fault /\ ret.z.b = <<112>>

C22_Witness == C22_TheCall /\ ret.z.b = <<112>> /\ arg.order = "BigEndianBits"

\* C22 (as stated): that extraction yields the single byte 0b01011000.
C22_AsStated == C22_TheCall => ~ret.fault /\ ret.z.b = <<88>>

\* C23: with width 0, Bits and SetBits complete and every byte already in
\* the destination keeps its value; Bits returns the destination as it was
\* and SetBits only extends z to ceil(ofs/8) bytes.
C23_ZeroWidthIsNoOp ==
    /\ (op = "Bits" /\ prev.op = "idle" /\ arg.bits = 0) =>
          /\ ~ret.fault
          /\ ret.z.b = arg.dst.b
    /\ (op = "SetBits" /\ prev.op = "idle" /\ arg.bits = 0) =>
          /\ ~ret.fault
          /\ Len(ret.z.b) = Max(Len(arg.z.b), (arg.ofs + 7) \div 8)
          /\ \A i \in 1..Len(arg.z.b) : ret.z.b[i] = arg.z.b[i]

\* C24: a PutBit, PutUintN, PutBytes or Copy that faults leaves every byte
\* of the caller's buffer (its length and its spare capacity, unless the
\* call moved to a new buffer) as it was before the call.
C24_NoPartialWrites ==
    (op \in {"PutBit", "PutUintN", "PutBytes", "Copy"} /\ ret.fault
        /\ Len(ret.z.b) <= Len(arg.z.b) + Len(arg.z.spare)) =>
        ret.z.b \o ret.z.spare = arg.z.b \o arg.z.spare

\* C25: when the l bytes asked for lie within x followed by y, extract2 does
\* not fault and bit i of z is bit ofs+i of x followed by y, for every i
\* below 8*l.
C25_Extract2 ==
    (op = "extract2" /\ arg.ofs + 8 * Len(arg.z) <= 8 * (Len(arg.x) + Len(arg.y))) =>
        /\ ~ret.fault
        /\ Len(ret.z) = Len(arg.z)
        /\ \A i \in 0..(8 * Len(arg.z) - 1) :
              BitAt(ret.z, i) = BitAt(arg.x \o arg.y, arg.ofs + i)

\* Three bytes from bit 3 of one byte of x followed by three bytes of y: the
\* field crosses from x into y and runs on in y.
C25_Witness ==
    /\ op = "extract2" /\ ~ret.fault
    /\ Len(arg.x) = 1 /\ Len(arg.y) = 3 /\ arg.ofs = 3 /\ Len(arg.z) = 3
    /\ ret.z # arg.z

\* C26: on a field of 64 bits or more inside its buffer, Set, And, AndNot,
\* Or, Xor, Not, Count and Fill return without a fault.
C26_WideFieldsTerminate ==
    (op \in {"Field.Op", "Field.Count", "Field.Fill"} /\ arg.z.w >= WordBits
        /\ (op # "Field.Op" => arg.b \in {0, 1})) => ~ret.fault

\* The number of bits of value b at the left end and at the right end of z.
LeadingRun(z, b) ==
    CHOOSE k \in 0..(8 * Len(z)) :
        /\ \A j \in 0..(k - 1) : BitAt(z, j) = b
        /\ k = 8 * Len(z) \/ BitAt(z, k) # b
TrailingRun(z, b) ==
    CHOOSE k \in 0..(8 * Len(z)) :
        /\ \A j \in 0..(k - 1) : BitAt(z, 8 * Len(z) - 1 - j) = b
        /\ k = 8 * Len(z) \/ BitAt(z, 8 * Len(z) - 1 - k) # b

\* C27: Leading(z, 1) is the number of consecutive 1 bits from the
\* most-significant bit of z[0], Trailing(z, 1) the number of consecutive 1
\* bits up to the least-significant bit of the last byte; both equal the
\* count of 0 bits of the complement of z.
C27_LeadingTrailingOnes ==
    /\ (op = "Leading" /\ arg.b = 1) =>
          /\ ~ret.fault
          /\ ret.n = LeadingRun(arg.z, 1)
          /\ ret.n = Leading(Complement(arg.z), 0).n
    /\ (op = "Trailing" /\ arg.b = 1) =>
          /\ ~ret.fault
          /\ ret.n = TrailingRun(arg.z, 1)
          /\ ret.n = Trailing(Complement(arg.z), 0).n

\* C28: after SetBit(z, ofs, v) on a z holding byte ofs/8, Bit at ofs is
\* v & 1 and Bit at every other offset of z is what it was before.
C28_SetBitThenBit ==
    (op = "BigEndianOrder.Bit" /\ prev.op = "BigEndianOrder.SetBit"
        /\ Len(prev.arg.z.b) >= (prev.arg.ofs \div 8) + 1
        /\ arg.ofs < 8 * Len(prev.arg.z.b)) =>
        /\ ~ret.fault
        /\ ret.v = IF arg.ofs = prev.arg.ofs THEN prev.arg.v % 2
                   ELSE BitAt(prev.arg.z.b, arg.ofs)

\* C29: no ReadBits call, whatever its argument, increases the remaining
\* width or takes it outside 0..w0, and none moves the cursor backwards.
C29_WidthNeverGrows ==
    op = "ReadBits" =>
        /\ ret.cur.w <= arg.cur.w
        /\ ret.cur.w \in 0..arg.init.width
        /\ FieldPos(ret.cur) >= FieldPos(arg.cur)
        /\ FieldPos(ret.cur) >= arg.init.ofs

====
